---- MODULE Spec2Model ----
(***************************************************************************)
(* A model of the Brainfuck interpreter of src/brainfuck.c: the bracket    *)
(* validator, the loader, the two doubly linked tapes and the execution    *)
(* loop.  A cell of struct StackBlock is a record [next, prev, data]; the  *)
(* heap is the sequence of the cells malloc has handed out, a pointer is   *)
(* an index into it and NULL is 0.  `char` is the signed 8-bit type of the *)
(* reference build, so a cell's data ranges over -128..127.                *)
(***************************************************************************)
EXTENDS Integers, Sequences, FiniteSets, TLC

\* ------------------------------------------------------------ constants
MOVE_FORWARD == 62
MOVE_BACKWARD == 60
INCREMENT_DATA == 43
DECREMENT_DATA == 45
OUTPUT_DATA == 46
INPUT_DATA == 44
LOOP_START == 91
LOOP_END == 93

\* stdio's end-of-file value, as compared at lines 32 and 120.
EOF == -1
\* The null pointer of the next/prev links.
NULL == 0
\* The number of values of `char data`.
CharModulus == 256

\* --------------------------------------------------------------- bounds
\* Longest source drawn over the whole byte alphabet.
MaxRaw == 3
\* Longest source drawn over + - [ ].
MaxLoop == 5
\* Largest a and b of the addition programs.
MaxAdd == 5
\* Largest n of the small clearing programs.
MaxClear == 3
\* The number of cells malloc can hand out before memory is exhausted.
MaxCells == 280
\* The most cells malloc hands to one scan that has left the tape.
MaxRunaway == 3
\* The most bytes a run writes before the model stops following it.
MaxOutput == 3
\* The most cells of the tape that is moved on by itself.
MaxTape == 5
\* The longest run of moves in one direction that is undone.
MaxMoves == 4

\* -------------------------------------------------------------- helpers
InstructionSymbols ==
    {MOVE_FORWARD, MOVE_BACKWARD, INCREMENT_DATA, DECREMENT_DATA,
     OUTPUT_DATA, INPUT_DATA, LOOP_START, LOOP_END}

\* The bytes sources are drawn from: the eight symbols, a comment letter,
\* the NUL byte and the byte 0xFF.
Bytes == InstructionSymbols \cup {0, 97, 255}

LoopBytes == {INCREMENT_DATA, DECREMENT_DATA, LOOP_START, LOOP_END}

\* The values the uninitialised data field of a fresh malloc block may hold.
Garbage == {0, INCREMENT_DATA, LOOP_START, LOOP_END, 120}

\* The bytes getchar may deliver before end of input.
InputBytes == {0, 1, 255}

Strings(A, n) == UNION {[1..k -> A] : k \in 0..n}

Repeat(x, n) == [i \in 1..n |-> x]

\* a '+', '>', b '+', then [<+>-]<.
AddProgram(a, b) ==
    Repeat(INCREMENT_DATA, a) \o <<MOVE_FORWARD>> \o Repeat(INCREMENT_DATA, b)
    \o <<LOOP_START, MOVE_BACKWARD, INCREMENT_DATA, MOVE_FORWARD,
         DECREMENT_DATA, LOOP_END, MOVE_BACKWARD, OUTPUT_DATA>>

AddPairs == ((0..MaxAdd) \X (0..MaxAdd)) \cup {<<255, 1>>, <<254, 3>>}

\* n '+' then [-]
ClearProgram(n) ==
    Repeat(INCREMENT_DATA, n) \o <<LOOP_START, DECREMENT_DATA, LOOP_END>>

ClearCounts == (1..MaxClear) \cup {255}

\* CharModulus '+' (or '-') and then an output, or a loop that would write.
IncrementsThenOutput == Repeat(INCREMENT_DATA, CharModulus) \o <<OUTPUT_DATA>>

DecrementsThenOutput == Repeat(DECREMENT_DATA, CharModulus) \o <<OUTPUT_DATA>>

IncrementsThenLoop ==
    Repeat(INCREMENT_DATA, CharModulus)
    \o <<LOOP_START, DECREMENT_DATA, OUTPUT_DATA, LOOP_END>>

WrapPrograms == {IncrementsThenOutput, DecrementsThenOutput, IncrementsThenLoop}

\* Sources with bytes after a byte 0xFF: []\xFF] and [\xFF] and +\xFF[.
TruncatedSources ==
    { <<LOOP_START, LOOP_END, 255, LOOP_END>>,
      <<LOOP_START, 255, LOOP_END>>,
      <<INCREMENT_DATA, 255, LOOP_START>> }

\* Programs with loops nested two and three deep.
NestedPrograms ==
    { <<43, 91, 91, 45, 93, 93>>,                       \* +[[-]]
      <<45, 91, 91, 43, 93, 45, 93>>,                   \* -[[+]-]
      <<43, 43, 91, 62, 43, 91, 45, 93, 60, 45, 93>>,   \* ++[>+[-]<-]
      <<91, 91, 91, 93, 93, 91, 93, 93, 43>>,           \* [[[]][]]+
      <<43, 91, 62, 91, 91, 93, 43, 93, 60, 45, 93>>,   \* +[>[[]+]<-]
      <<44, 91, 46, 91, 45, 93, 44, 93>> }              \* ,[.[-],]

Sources ==
    Strings(Bytes, MaxRaw) \cup Strings(LoopBytes, MaxLoop)
    \cup {AddProgram(p[1], p[2]) : p \in AddPairs}
    \cup {ClearProgram(n) : n \in ClearCounts}
    \cup NestedPrograms
    \cup WrapPrograms
    \cup TruncatedSources

\* The sources whose runs are followed to their end.
RunSources ==
    Strings(Bytes, 1)
    \cup {AddProgram(p[1], p[2]) : p \in AddPairs}
    \cup {ClearProgram(n) : n \in ClearCounts}

\* The conversion of an int in 0..255 (or EOF) to the signed char it is
\* stored in.
ToChar(x) == IF x >= 128 THEN x - CharModulus ELSE x

\* The conversion of a char to the unsigned byte printf("%c") writes.
ToByte(c) == c % CharModulus

\* --------------------------------------------------------------- state
VARIABLES
    src,       \* the bytes of the source file
    pc,        \* where main is: check, alloc, parse, exec, advance, free,
               \* freeData, or ended: done, reject, nomem, fatal
    pos,       \* the file position of the next fgetc
    loopCounter, \* checkBrackets' loopCounter
    heap,      \* the cells malloc has handed out
    cur,       \* parseInstructions' currentBlock
    ip,        \* executeProgram's InstructionPointer
    dp,        \* executeProgram's DataPointer
    output,    \* the bytes outputData has written
    stdinEOF,  \* getchar has reported end of input
    freed,     \* the cells free has released
    walk       \* freeBlocks' currentBlock

vars == <<src, pc, pos, loopCounter, heap, cur, ip, dp, output, stdinEOF,
          freed, walk>>

instructionHead == 1
dataHead == 2

\* ------------------------------------------------------- checkBrackets
\* `char command = fgetc(file)` compared with EOF: true at the end of the
\* file and at a byte whose char value equals EOF.
ReadEnds(s, i) == IF i > Len(s) THEN TRUE ELSE ToChar(s[i]) = EOF

\* The loop counter after the byte `command` (lines 33-34).
CountBracket(counter, command) ==
    LET afterOpen == IF command = LOOP_START THEN counter + 1 ELSE counter
    IN  IF command = LOOP_END THEN afterOpen - 1 ELSE afterOpen

\* ------------------------------------------------------------ the tape
\* malloc succeeds when the environment grants it and memory is left.
MallocGrants(h, granted) == granted /\ Len(h) < MaxCells

\* (A move whose failed malloc is not noticed.)
MoveResultUnchecked(h, p, ok) == [heap |-> h, ptr |-> p, ok |-> TRUE]

\* The result of a move: the heap, the cell moved to, and ok = FALSE when
\* malloc returned NULL (the process exits).
MoveResult(h, p, ok) == [heap |-> h, ptr |-> p, ok |-> ok]

\* (A moveForward that does not set newBlock->prev.)
moveForwardUnlinked(h, blockPointer, granted) ==
    IF h[blockPointer].next = NULL
    THEN IF MallocGrants(h, granted)
         THEN MoveResult(
                  Append([h EXCEPT ![blockPointer].next = Len(h) + 1],
                         [next |-> NULL, prev |-> NULL, data |-> 0]),
                  Len(h) + 1, TRUE)
         ELSE MoveResult(h, blockPointer, FALSE)
    ELSE MoveResult(h, h[blockPointer].next, TRUE)

moveForward(h, blockPointer, granted) ==
    IF h[blockPointer].next = NULL
    THEN IF MallocGrants(h, granted)
         THEN LET newBlock == Len(h) + 1
              IN  MoveResult(
                      Append([h EXCEPT ![blockPointer].next = newBlock],
                             [next |-> NULL, prev |-> blockPointer, data |-> 0]),
                      newBlock, TRUE)
         ELSE MoveResult(h, blockPointer, FALSE)
    ELSE MoveResult(h, h[blockPointer].next, TRUE)

\* (A moveBackward that does not set blockPointer->prev.)
moveBackwardOneWay(h, blockPointer, granted) ==
    IF h[blockPointer].prev = NULL
    THEN IF MallocGrants(h, granted)
         THEN MoveResult(
                  Append(h, [next |-> blockPointer, prev |-> NULL, data |-> 0]),
                  Len(h) + 1, TRUE)
         ELSE MoveResult(h, blockPointer, FALSE)
    ELSE MoveResult(h, h[blockPointer].prev, TRUE)

\* (A moveBackward that allocates at every call.)
moveBackwardEager(h, blockPointer, granted) ==
    IF MallocGrants(h, granted)
    THEN MoveResult(
             Append([h EXCEPT ![blockPointer].prev = Len(h) + 1],
                    [next |-> blockPointer, prev |-> NULL, data |-> 0]),
             Len(h) + 1, TRUE)
    ELSE MoveResult(h, blockPointer, FALSE)

moveBackward(h, blockPointer, granted) ==
    IF h[blockPointer].prev = NULL
    THEN IF MallocGrants(h, granted)
         THEN LET newBlock == Len(h) + 1
              IN  MoveResult(
                      Append([h EXCEPT ![blockPointer].prev = newBlock],
                             [next |-> blockPointer, prev |-> NULL, data |-> 0]),
                      newBlock, TRUE)
         ELSE MoveResult(h, blockPointer, FALSE)
    ELSE MoveResult(h, h[blockPointer].prev, TRUE)

\* (An increment that does not wrap.)
incrementDataNoWrap(v) == v + 1

\* (A decrement that leaves the cell as it is.)
decrementDataStuck(v) == v

\* (An increment that stays at the largest value.)
incrementDataSaturates(v) == IF v = 127 THEN 127 ELSE v + 1

\* data++ and data-- on a signed char.
incrementData(v) == IF v = 127 THEN -128 ELSE v + 1

decrementData(v) == IF v = -128 THEN 127 ELSE v - 1

\* The byte printf("%c", data) writes.
outputData(v) == ToByte(v)

\* (An input that stores 0 at the end of input.)
inputDataZeroAtEnd(c) == IF c = EOF THEN 0 ELSE ToChar(c)

\* The char stored from getchar's int.
inputData(c) == ToChar(c)

\* ---------------------------------------------------------------- main
InitWith(sources) ==
    /\ src \in sources
    /\ pc = "check"
    /\ pos = 1
    /\ loopCounter = 0
    /\ heap = <<>>
    /\ cur = NULL
    /\ ip = NULL
    /\ dp = NULL
    /\ output = <<>>
    /\ stdinEOF = FALSE
    /\ freed = {}
    /\ walk = NULL

Init == InitWith(Sources)

\* One turn of the loop of lines 32-36; an unmatched ']' ends the run at
\* line 218.
CheckByte ==
    /\ pc = "check"
    /\ ~ReadEnds(src, pos)
    /\ LET counter == CountBracket(loopCounter, ToChar(src[pos]))
       IN  /\ loopCounter' = counter
           /\ pc' = IF counter < 0 THEN "reject" ELSE "check"
    /\ pos' = pos + 1
    /\ UNCHANGED <<src, heap, cur, ip, dp, output, stdinEOF, freed, walk>>

\* Line 37.
Balanced(counter) == counter = 0

\* main, lines 215-220: a rejected source ends the run with status 1, an
\* accepted one is rewound.
\* (A main that loads whatever checkBrackets returned.)
MainProceedsAlways(accepted) == TRUE

MainProceeds(accepted) == accepted

CheckEnd ==
    /\ pc = "check"
    /\ ReadEnds(src, pos)
    /\ IF MainProceeds(Balanced(loopCounter))
       THEN /\ pc' = "alloc"
            /\ pos' = 1
       ELSE /\ pc' = "reject"
            /\ UNCHANGED pos
    /\ UNCHANGED <<src, loopCounter, heap, cur, ip, dp, output, stdinEOF, freed, walk>>

\* main, lines 222-231: the two heads; instructionHead->data is not set.
AllocHeads ==
    /\ pc = "alloc"
    /\ \E granted \in BOOLEAN, g \in Garbage :
          IF granted
          THEN /\ heap' = <<[next |-> NULL, prev |-> NULL, data |-> g],
                            [next |-> NULL, prev |-> NULL, data |-> 0]>>
               /\ cur' = instructionHead
               /\ pc' = "parse"
          ELSE /\ pc' = "nomem"
               /\ UNCHANGED <<heap, cur>>
    /\ UNCHANGED <<src, pos, loopCounter, ip, dp, output, stdinEOF, freed, walk>>

\* ---------------------------------------------------- parseInstructions
\* (A loader that drops ']'.)
IsInstructionButLoopEnd(command) == command \in InstructionSymbols \ {LOOP_END}

IsInstruction(command) == command \in InstructionSymbols

\* One turn of the loop of lines 120-125 on an instruction byte.
ParseInstruction ==
    /\ pc = "parse"
    /\ ~ReadEnds(src, pos)
    /\ IsInstruction(ToChar(src[pos]))
    /\ \E granted \in BOOLEAN :
          LET stored == [heap EXCEPT ![cur].data = ToChar(src[pos])]
              r == moveForward(stored, cur, granted)
          IN  /\ heap' = r.heap
              /\ cur' = r.ptr
              /\ pc' = IF r.ok THEN "parse" ELSE "fatal"
              /\ pos' = pos + 1
    /\ UNCHANGED <<src, loopCounter, ip, dp, output, stdinEOF, freed, walk>>

\* One turn of the loop on any other byte.
ParseSkip ==
    /\ pc = "parse"
    /\ ~ReadEnds(src, pos)
    /\ ~IsInstruction(ToChar(src[pos]))
    /\ pos' = pos + 1
    /\ UNCHANGED <<src, pc, loopCounter, heap, cur, ip, dp, output, stdinEOF, freed, walk>>

\* The loop ends; main calls executeProgram(instructionHead, dataHead).
ParseEnd ==
    /\ pc = "parse"
    /\ ReadEnds(src, pos)
    /\ pc' = "exec"
    /\ ip' = instructionHead
    /\ dp' = dataHead
    /\ UNCHANGED <<src, pos, loopCounter, heap, cur, output, stdinEOF, freed, walk>>

\* ------------------------------------------------------- executeProgram
\* The loop condition of line 131.
ProgramEnds(h, p) == h[p].data = 0

\* The tests of lines 154 and 172.
LoopStartSkips(v) == v = 0

\* (A loop end that never jumps back.)
LoopEndFallsThrough(v) == FALSE

LoopEndRepeats(v) == v # 0

\* The loop counter after the forward scan has moved onto a cell holding d
\* (lines 160-167).
ForwardCount(counter, d) ==
    IF d = LOOP_START THEN counter + 1
    ELSE IF d = LOOP_END THEN counter - 1
    ELSE counter

\* (A backward scan that counts as the forward scan does.)
BackwardCountAsForward(counter, d) == ForwardCount(counter, d)

\* The loop counter after the backward scan has moved onto a cell holding d
\* (lines 178-185).
BackwardCount(counter, d) ==
    IF d = LOOP_START THEN counter - 1
    ELSE IF d = LOOP_END THEN counter + 1
    ELSE counter

\* The scan of lines 157-168 from cell p; `grants` is the number of malloc
\* calls the environment still grants it: a scan that has left the tape
\* allocates until malloc fails.
RECURSIVE ScanForward(_, _, _, _)
ScanForward(h, p, counter, grants) ==
    IF counter = 0 THEN MoveResult(h, p, TRUE)
    ELSE LET r == moveForward(h, p, grants > 0)
         IN  IF ~r.ok THEN r
             ELSE ScanForward(r.heap, r.ptr,
                              ForwardCount(counter, r.heap[r.ptr].data),
                              IF Len(r.heap) > Len(h) THEN grants - 1 ELSE grants)

\* The scan of lines 175-186 from cell p.
RECURSIVE ScanBackward(_, _, _, _)
ScanBackward(h, p, counter, grants) ==
    IF counter = 0 THEN MoveResult(h, p, TRUE)
    ELSE LET r == moveBackward(h, p, grants > 0)
         IN  IF ~r.ok THEN r
             ELSE ScanBackward(r.heap, r.ptr,
                               BackwardCount(counter, r.heap[r.ptr].data),
                               IF Len(r.heap) > Len(h) THEN grants - 1 ELSE grants)

\* The instruction the switch of line 133 dispatches on.
Dispatch(symbol) ==
    /\ pc = "exec"
    /\ ~ProgramEnds(heap, ip)
    /\ heap[ip].data = symbol

\* A move of the data pointer ends at line 192 or in exit(1).
MoveData(r) ==
    /\ heap' = r.heap
    /\ dp' = r.ptr
    /\ pc' = IF r.ok THEN "advance" ELSE "fatal"

ExecMoveForward ==
    /\ Dispatch(MOVE_FORWARD)
    /\ \E granted \in BOOLEAN : MoveData(moveForward(heap, dp, granted))
    /\ UNCHANGED <<src, pos, loopCounter, cur, ip, output, stdinEOF, freed, walk>>

ExecMoveBackward ==
    /\ Dispatch(MOVE_BACKWARD)
    /\ \E granted \in BOOLEAN : MoveData(moveBackward(heap, dp, granted))
    /\ UNCHANGED <<src, pos, loopCounter, cur, ip, output, stdinEOF, freed, walk>>

ExecIncrement ==
    /\ Dispatch(INCREMENT_DATA)
    /\ heap' = [heap EXCEPT ![dp].data = incrementData(@)]
    /\ pc' = "advance"
    /\ UNCHANGED <<src, pos, loopCounter, cur, ip, dp, output, stdinEOF, freed, walk>>

ExecDecrement ==
    /\ Dispatch(DECREMENT_DATA)
    /\ heap' = [heap EXCEPT ![dp].data = decrementData(@)]
    /\ pc' = "advance"
    /\ UNCHANGED <<src, pos, loopCounter, cur, ip, dp, output, stdinEOF, freed, walk>>

ExecOutput ==
    /\ Dispatch(OUTPUT_DATA)
    /\ Len(output) < MaxOutput
    /\ output' = Append(output, outputData(heap[dp].data))
    /\ pc' = "advance"
    /\ UNCHANGED <<src, pos, loopCounter, heap, cur, ip, dp, stdinEOF, freed, walk>>

\* getchar delivers a byte, or EOF from the end of input on.
ExecInput ==
    /\ Dispatch(INPUT_DATA)
    /\ \E c \in (IF stdinEOF THEN {} ELSE InputBytes) \cup {EOF} :
          /\ heap' = [heap EXCEPT ![dp].data = inputData(c)]
          /\ stdinEOF' = (c = EOF)
    /\ pc' = "advance"
    /\ UNCHANGED <<src, pos, loopCounter, cur, ip, dp, output, freed, walk>>

\* A scan ends on the matching bracket or, malloc failing, in exit(1).
Jump(r) ==
    /\ heap' = r.heap
    /\ ip' = r.ptr
    /\ pc' = IF r.ok THEN "advance" ELSE "fatal"

ExecLoopStart ==
    /\ Dispatch(LOOP_START)
    /\ IF LoopStartSkips(heap[dp].data)
       THEN \E grants \in 0..MaxRunaway :
               Jump(ScanForward(heap, ip, 1, grants))
       ELSE /\ pc' = "advance"
            /\ UNCHANGED <<heap, ip>>
    /\ UNCHANGED <<src, pos, loopCounter, cur, dp, output, stdinEOF, freed, walk>>

ExecLoopEnd ==
    /\ Dispatch(LOOP_END)
    /\ IF LoopEndRepeats(heap[dp].data)
       THEN \E grants \in 0..MaxRunaway :
               Jump(ScanBackward(heap, ip, 1, grants))
       ELSE /\ pc' = "advance"
            /\ UNCHANGED <<heap, ip>>
    /\ UNCHANGED <<src, pos, loopCounter, cur, dp, output, stdinEOF, freed, walk>>

\* The default case: a cell that holds none of the eight symbols.
ExecDefault ==
    /\ pc = "exec"
    /\ ~ProgramEnds(heap, ip)
    /\ ~IsInstruction(heap[ip].data)
    /\ pc' = "advance"
    /\ UNCHANGED <<src, pos, loopCounter, heap, cur, ip, dp, output, stdinEOF, freed, walk>>

\* Line 192.
Advance ==
    /\ pc = "advance"
    /\ \E granted \in BOOLEAN :
          LET r == moveForward(heap, ip, granted)
          IN  /\ heap' = r.heap
              /\ ip' = r.ptr
              /\ pc' = IF r.ok THEN "exec" ELSE "fatal"
    /\ UNCHANGED <<src, pos, loopCounter, cur, dp, output, stdinEOF, freed, walk>>

\* The loop of line 131 ends on a cell holding 0; main goes on to line
\* 241, freeBlocks(instructionHead).
ExecEnd ==
    /\ pc = "exec"
    /\ ProgramEnds(heap, ip)
    /\ pc' = "free"
    /\ walk' = instructionHead
    /\ UNCHANGED <<src, pos, loopCounter, heap, cur, ip, dp, output, stdinEOF, freed>>

\* ----------------------------------------------------------- freeBlocks
\* One turn of the loop of lines 53-57: the block is freed and the walk
\* goes on by next.
FreeBlock ==
    /\ pc \in {"free", "freeData"}
    /\ walk # NULL
    /\ freed' = freed \cup {walk}
    /\ walk' = heap[walk].next
    /\ UNCHANGED <<src, pc, pos, loopCounter, heap, cur, ip, dp, output, stdinEOF>>

\* freeBlocks(instructionHead) returns; main calls freeBlocks(dataHead).
FreeData ==
    /\ pc = "free"
    /\ walk = NULL
    /\ pc' = "freeData"
    /\ walk' = dataHead
    /\ UNCHANGED <<src, pos, loopCounter, heap, cur, ip, dp, output, stdinEOF, freed>>

\* freeBlocks(dataHead) returns; main returns 0.
FreeEnd ==
    /\ pc = "freeData"
    /\ walk = NULL
    /\ pc' = "done"
    /\ UNCHANGED <<src, pos, loopCounter, heap, cur, ip, dp, output, stdinEOF,
                   freed, walk>>

\* The statuses of main's returns (lines 244, 218, 227) and of the exit of
\* moveForward and moveBackward (lines 68, 86).
SuccessStatus == 0
RejectStatus == 1
NoMemoryStatus == 1
FatalStatus == 1

\* The status the process ends with; -1 while it runs.
ExitStatus ==
    CASE pc = "done" -> SuccessStatus
      [] pc = "reject" -> RejectStatus
      [] pc = "nomem" -> NoMemoryStatus
      [] pc = "fatal" -> FatalStatus
      [] OTHER -> -1

Next ==
    \/ CheckByte
    \/ CheckEnd
    \/ AllocHeads
    \/ ParseInstruction
    \/ ParseSkip
    \/ ParseEnd
    \/ ExecMoveForward
    \/ ExecMoveBackward
    \/ ExecIncrement
    \/ ExecDecrement
    \/ ExecOutput
    \/ ExecInput
    \/ ExecLoopStart
    \/ ExecLoopEnd
    \/ ExecDefault
    \/ Advance
    \/ ExecEnd
    \/ FreeBlock
    \/ FreeData
    \/ FreeEnd

Spec == Init /\ [][Next]_vars

\* The runs of the addition and clearing programs and of the shortest
\* sources, the process being scheduled until it ends.
RunInit == InitWith(RunSources)

RunSpec == RunInit /\ [][Next]_vars /\ WF_vars(Next)

\* ------------------------------------------------- a tape by itself
\* The values the one cell of the tape starts with.
TapeValues == {0, 1, 0 - 1, 127, 0 - 128, LOOP_START}

\* A tape of one cell, linked as main links a head (lines 229-231), and a
\* cursor on it.
TapeInit ==
    /\ src = <<>>
    /\ pc = "tape"
    /\ pos = 1
    /\ loopCounter = 0
    /\ \E v \in TapeValues : heap = <<[next |-> NULL, prev |-> NULL, data |-> v]>>
    /\ cur = NULL
    /\ ip = NULL
    /\ dp = 1
    /\ output = <<>>
    /\ stdinEOF = FALSE
    /\ freed = {}
    /\ walk = NULL

\* cursor = moveForward(cursor)
TapeForward ==
    /\ pc = "tape"
    /\ Len(heap) < MaxTape
    /\ \E granted \in BOOLEAN :
          LET r == moveForward(heap, dp, granted)
          IN  /\ heap' = r.heap
              /\ dp' = r.ptr
              /\ pc' = IF r.ok THEN "tape" ELSE "fatal"
    /\ UNCHANGED <<src, pos, loopCounter, cur, ip, output, stdinEOF, freed, walk>>

\* cursor = moveBackward(cursor)
TapeBackward ==
    /\ pc = "tape"
    /\ Len(heap) < MaxTape
    /\ \E granted \in BOOLEAN :
          LET r == moveBackward(heap, dp, granted)
          IN  /\ heap' = r.heap
              /\ dp' = r.ptr
              /\ pc' = IF r.ok THEN "tape" ELSE "fatal"
    /\ UNCHANGED <<src, pos, loopCounter, cur, ip, output, stdinEOF, freed, walk>>

TapeNext == TapeForward \/ TapeBackward

TapeSpec == TapeInit /\ [][TapeNext]_vars

\* ------------------------------------------------- reading the tapes
\* The cells from `block` on by next, at most k of them, in order.
RECURSIVE Seg(_, _, _)
Seg(h, block, k) ==
    IF block = NULL \/ k = 0 THEN <<>>
    ELSE IF k = 1 THEN <<block>>
    ELSE LET half == k \div 2
             front == Seg(h, block, half)
         IN  IF Len(front) < half THEN front
             ELSE front \o Seg(h, h[front[half]].next, k - half)

\* The cells of the tape that starts at `head`, in order.
Chain(h, head) == Seg(h, head, Len(h))

\* The instruction tape: its cells and what they hold.
ITapeCells == Chain(heap, instructionHead)

ITape ==
    LET cells == ITapeCells
    IN  [k \in 1..Len(cells) |-> heap[cells[k]].data]

\* The place of cell c on the instruction tape; 0 when it is not on it.
PosOf(cells, c) ==
    IF \E k \in 1..Len(cells) : cells[k] = c
    THEN CHOOSE k \in 1..Len(cells) : cells[k] = c
    ELSE 0

\* '[' minus ']' among t[i..k].
Depth(t, i, k) ==
    Cardinality({m \in i..k : t[m] = LOOP_START})
    - Cardinality({m \in i..k : t[m] = LOOP_END})

\* A stream is balanced: no prefix closes more than it opens and the whole
\* closes all it opens.
WellBracketed(s) ==
    /\ \A k \in 1..Len(s) : Depth(s, 1, k) >= 0
    /\ Depth(s, 1, Len(s)) = 0

\* The run is past loading: executeProgram has been entered.
Executing == pc \in {"exec", "advance", "free", "freeData", "done"}

\* executeProgram has just been entered.
ExecutionStarts == pc = "exec" /\ ip = instructionHead

\* ---------------------------------------------------------------- C1
\* C1: checkBrackets returns success exactly for the streams whose running
\* depth is never negative and is 0 at the end of the whole stream.
C1_ValidatorDecidesBalance ==
    /\ pc = "alloc" => WellBracketed(src)
    /\ pc = "reject" => ~WellBracketed(src)

\* ---------------------------------------------------------------- C2
\* checkBrackets returns 0 in the step that is about to be taken.
Rejecting ==
    /\ pc = "check"
    /\ IF ReadEnds(src, pos) THEN loopCounter # 0
       ELSE CountBracket(loopCounter, ToChar(src[pos])) < 0

C2_State ==
    /\ pc = "check" => heap = <<>> /\ output = <<>> /\ ip = NULL
    /\ pc = "reject" => /\ heap = <<>> /\ output = <<>> /\ ip = NULL
                        /\ ExitStatus # 0
    /\ ExitStatus = 0 => ip # NULL /\ heap[ip].data = 0

C2_Step ==
    /\ Rejecting => pc' = "reject"
    /\ pc = "check" => pc' \in {"check", "reject", "alloc"}
    /\ pc = "check" /\ pc' = "alloc" => ReadEnds(src, pos) /\ ~Rejecting
    /\ pc # "reject"
    /\ pc' = "done" => pc = "freeData"
    /\ pc' = "freeData" => pc \in {"free", "freeData"}
    /\ pc' = "free" => pc = "free" \/ (pc = "exec" /\ heap[ip].data = 0)

\* C2: validation ends before anything is loaded or executed; a rejected
\* source is never loaded or executed, writes no output byte and ends the
\* process with a non-zero status; status 0 comes only after executeProgram
\* has reached the end-of-program sentinel.
C2_ValidationGatesExecution == []C2_State /\ [][C2_Step]_vars

\* A source read to its end and rejected for an unclosed '['.
C2_Witness == pc = "reject" /\ pos > Len(src) /\ loopCounter > 0

\* ---------------------------------------------------------------- C3
\* What parseInstructions has stored: the cells before currentBlock.
Loaded == SubSeq(ITape, 1, PosOf(ITapeCells, cur) - 1)

\* C3: after parseInstructions the tape holds, from the head cell on and in
\* stream order, exactly the bytes of the stream that are one of the eight
\* symbols.
C3_TapeIsInstructionSubsequence ==
    ExecutionStarts => Loaded = SelectSeq(src, LAMBDA b : b \in InstructionSymbols)

\* ---------------------------------------------------------------- C4
\* C4: after loading, the cell one past the last loaded instruction holds
\* 0, also for a source with no instruction, whose run then dispatches
\* nothing.
C4_SentinelIsZero ==
    Executing => /\ heap[cur].data = 0
                 /\ cur = instructionHead => pc # "advance"

\* ------------------------------------------------------ C5, C6: loops
\* The cell of the ']' that closes the '[' in cell c at the same depth;
\* NULL when the tape holds none.
MatchingClose(c) ==
    LET cells == ITapeCells
        t == ITape
        i == PosOf(cells, c)
        J == {j \in (i + 1)..Len(t) :
                /\ t[j] = LOOP_END
                /\ Depth(t, i, j) = 0
                /\ \A k \in i..(j - 1) : Depth(t, i, k) > 0}
    IN  IF J = {} THEN NULL ELSE cells[CHOOSE j \in J : TRUE]

\* The cell of the '[' that opens the ']' in cell c at the same depth.
MatchingOpen(c) ==
    LET cells == ITapeCells
        t == ITape
        i == PosOf(cells, c)
        J == {j \in 1..(i - 1) :
                /\ t[j] = LOOP_START
                /\ Depth(t, j, i) = 0
                /\ \A k \in (j + 1)..i : Depth(t, k, i) < 0}
    IN  IF J = {} THEN NULL ELSE cells[CHOOSE j \in J : TRUE]

\* Line 192 moves the cursor to the cell after the one it is on, unless
\* that cell has to be allocated and malloc fails.
StepsToNext ==
    IF heap[ip].next # NULL
    THEN pc' = "exec" /\ ip' = heap[ip].next
    ELSE \/ pc' = "fatal"
         \/ pc' = "exec" /\ ip' = heap'[ip].next /\ heap'[ip'].prev = ip

OnBracket == heap[ip].data \in {LOOP_START, LOOP_END}

C5_Step ==
    /\ Dispatch(LOOP_START) =>
          /\ pc' = "advance"
          /\ ip' = IF heap[dp].data = 0 THEN MatchingClose(ip) ELSE ip
          /\ heap' = heap
    /\ pc = "advance" /\ OnBracket => StepsToNext

\* C5: on a '[' with the current data cell 0 the forward scan ends on the
\* ']' that matches it, and the next instruction dispatched is the one
\* after that ']'; with the cell non-zero it is the one after the '['.
C5_LoopOpenJumpsToMatch == [][C5_Step]_vars

C6_Step ==
    /\ Dispatch(LOOP_END) =>
          /\ pc' = "advance"
          /\ ip' = IF heap[dp].data # 0 THEN MatchingOpen(ip) ELSE ip
          /\ ip' # NULL
          /\ heap' = heap
    /\ pc = "advance" /\ OnBracket => StepsToNext

\* C6: on a ']' with the current data cell non-zero the backward scan ends
\* on the '[' that matches it, and the next instruction dispatched is the
\* first of that loop's body; with the cell 0 it is the one after the ']'.
C6_LoopCloseJumpsToMatch == [][C6_Step]_vars

\* A backward scan has crossed a nested loop and landed on the outer '['.
C6_Witness ==
    /\ pc = "advance"
    /\ heap[ip].data = LOOP_START
    /\ heap[dp].data # 0
    /\ MatchingClose(ip) # NULL
    /\ \E c \in 1..Len(heap) :
          /\ heap[c].data = LOOP_START
          /\ PosOf(ITapeCells, ip) < PosOf(ITapeCells, c)
          /\ PosOf(ITapeCells, c) < PosOf(ITapeCells, MatchingClose(ip))
    /\ heap[heap[MatchingClose(ip)].prev].data # LOOP_END

\* ---------------------------------------------------------------- C7
\* The cell that held the end-of-program sentinel when loading ended.
SentinelCell == cur

C7_Step ==
    pc \in {"exec", "advance"} =>
       LET cells == ITapeCells
       IN  /\ Chain(heap', instructionHead) = cells
           /\ \A k \in 1..Len(cells) : heap'[cells[k]].data = heap[cells[k]].data
           /\ PosOf(cells, ip') \in 1..PosOf(cells, SentinelCell)

\* C7: while an accepted program executes, the instruction cursor stays
\* between the first loaded instruction and the sentinel cell, no scan and
\* no advance allocates an instruction cell, and no instruction cell is
\* written.
C7_InstructionTapeFixed == [][C7_Step]_vars

\* ---------------------------------------------------------------- C8
\* The cursor is on the ']' of a '[' ']' pair, or on its '['.
OnEmptyLoopClose ==
    /\ heap[ip].data = LOOP_END
    /\ heap[ip].prev # NULL
    /\ heap[heap[ip].prev].data = LOOP_START

OnEmptyLoopOpen ==
    /\ heap[ip].data = LOOP_START
    /\ heap[ip].next # NULL
    /\ heap[heap[ip].next].data = LOOP_END

\* The statement as made: the ']' of an empty loop reached with the cell
\* non-zero lets execution go on after it.
C8_Original_Step ==
    /\ (pc = "exec" /\ OnEmptyLoopClose) =>
          pc' = "advance" /\ ip' = ip
    /\ (pc = "exec" /\ OnEmptyLoopOpen /\ heap[dp].data = 0) =>
          pc' = "advance" /\ ip' = heap[ip].next
    /\ (pc = "advance" /\ OnEmptyLoopClose) =>
          pc' = "exec" /\ ip' = heap[ip].next

C8_EmptyLoopRunsOnce == [][C8_Original_Step]_vars

\* Execution is inside an empty loop whose cell is non-zero.
Spinning ==
    /\ pc \in {"exec", "advance"}
    /\ heap[dp].data # 0
    /\ \/ pc = "exec" /\ OnEmptyLoopClose
       \/ OnEmptyLoopOpen

C8_Step ==
    /\ Spinning => Spinning' /\ heap' = heap /\ dp' = dp /\ output' = output
    /\ (pc = "exec" /\ OnEmptyLoopClose /\ heap[dp].data # 0) =>
          pc' = "advance" /\ ip' = heap[ip].prev
    /\ (pc = "exec" /\ OnEmptyLoopOpen /\ heap[dp].data = 0) =>
          pc' = "advance" /\ ip' = heap[ip].next
    /\ (pc = "advance" /\ OnEmptyLoopClose) =>
          pc' = "exec" /\ ip' = heap[ip].next

\* C8 as amended: '[' ']' reached with the cell non-zero never ends: the
\* ']' jumps back to the '[' with the cell unchanged, again and again; with
\* the cell 0 the '[' jumps to the ']' and execution goes on after it.
C8_EmptyLoopSpinsOrSkips == [][C8_Step]_vars

\* Execution is inside the empty loop of ,[] after end of input.
C8_Witness ==
    /\ pc = "advance"
    /\ OnEmptyLoopOpen
    /\ heap[dp].data = -1
    /\ heap[ip].prev # NULL
    /\ heap[heap[ip].prev].data = INPUT_DATA
    /\ stdinEOF

\* ------------------------------------------------------ C9, C10: runs
\* The process has ended.
Halted == pc \in {"done", "reject", "nomem", "fatal"}

IsAddProgram(a, b) == Len(src) = a + b + 9 /\ src = AddProgram(a, b)

AddSource == \E p \in AddPairs : IsAddProgram(p[1], p[2])

C9_State ==
    /\ pc = "done" =>
          \A p \in AddPairs :
             IsAddProgram(p[1], p[2]) =>
                LET sum == (p[1] + p[2]) % CharModulus
                IN  /\ heap[dataHead].data = ToChar(sum)
                    /\ heap[dataHead].next # NULL
                    /\ heap[heap[dataHead].next].data = 0
                    /\ dp = dataHead
                    /\ output = <<sum>>
    /\ Len(output) > 1 => ~AddSource

\* C9: the program of a '+', '>', b '+', '[<+>-]<.' ends (in exit(1) when
\* malloc fails, else at the sentinel), and at the sentinel the initial data
\* cell holds (a+b) mod 256, the cell to its right holds 0 and the output is
\* the one byte (a+b) mod 256.
C9_AdditionByLoop == []C9_State /\ (AddSource ~> Halted)

\* ++>+++++[<+>-]<. has ended with 7 in cell 0 and the one byte 7 written.
C9_Witness ==
    /\ pc = "done"
    /\ IsAddProgram(2, 5)
    /\ heap[dataHead].data = 7
    /\ output = <<7>>

IsClearProgram(n) == Len(src) = n + 3 /\ src = ClearProgram(n)

ClearSource == \E n \in ClearCounts : IsClearProgram(n)

\* The byte value of the current data cell.
CurrentByte == ToByte(heap[dp].data)

C10_State ==
    \A n \in ClearCounts :
       IsClearProgram(n) =>
          /\ pc = "done" => heap[dp].data = 0
          /\ Dispatch(LOOP_START) => CurrentByte = n
          /\ Dispatch(DECREMENT_DATA) => CurrentByte \in 1..n
          /\ Dispatch(LOOP_END) => CurrentByte \in 0..(n - 1)

C10_Step ==
    (ClearSource /\ Dispatch(DECREMENT_DATA)) =>
       /\ pc' = "advance"
       /\ ToByte(heap'[dp].data) = CurrentByte - 1

\* C10: the program of n '+' and '[-]' ends (in exit(1) when malloc fails,
\* else at the sentinel) with the current data cell 0; the loop is entered
\* with the cell at n and each run of its body takes the cell from a value
\* in 1..n to the value one less, so the body runs exactly n times.
C10_ClearingLoop ==
    []C10_State /\ [][C10_Step]_vars /\ (ClearSource ~> Halted)

\* 255 '+' and [-] has ended with the cell at 0.
C10_Witness ==
    /\ pc = "done"
    /\ IsClearProgram(255)
    /\ heap[dp].data = 0

\* ---------------------------------------------------------------- C11
\* The values of `char data`.
CharValues == (0 - 128)..127

\* n increments (decrements) of v, one after the other; a value that is
\* not a char's is handed back as it is.
RECURSIVE Increments(_, _)
Increments(v, n) ==
    IF n = 0 THEN v
    ELSE IF n = 1 THEN incrementData(v)
    ELSE LET half == Increments(v, n \div 2)
         IN  IF half \in CharValues THEN Increments(half, n - (n \div 2)) ELSE half

RECURSIVE Decrements(_, _)
Decrements(v, n) ==
    IF n = 0 THEN v
    ELSE IF n = 1 THEN decrementData(v)
    ELSE LET half == Decrements(v, n \div 2)
         IN  IF half \in CharValues THEN Decrements(half, n - (n \div 2)) ELSE half

ArithmeticWraps ==
    /\ \A v \in CharValues :
          /\ incrementData(v) \in CharValues
          /\ decrementData(v) \in CharValues
          /\ Increments(v, CharModulus) = v
          /\ Decrements(v, CharModulus) = v
          /\ decrementData(incrementData(v)) = v
          /\ incrementData(decrementData(v)) = v
          /\ ToByte(incrementData(v)) = (ToByte(v) + 1) % CharModulus
          /\ LoopStartSkips(v) = (ToByte(v) = 0)
          /\ LoopEndRepeats(v) = (ToByte(v) # 0)
    /\ incrementData(127) = 0 - 128
    /\ decrementData(0 - 128) = 127

IsSource(s) == Len(src) = Len(s) /\ src = s

C11_State ==
    /\ ArithmeticWraps
    /\ \A c \in 1..Len(heap) : heap[c].data \in CharValues
    /\ pc = "done" =>
          /\ IsSource(IncrementsThenOutput) => output = <<0>>
          /\ IsSource(DecrementsThenOutput) => output = <<0>>
          /\ IsSource(<<OUTPUT_DATA>>) => output = <<0>>
    /\ IsSource(IncrementsThenLoop) =>
          /\ output = <<>>
          /\ Dispatch(LOOP_START) => heap[dp].data = 0
          /\ ~Dispatch(LOOP_END)

C11_Step ==
    /\ Dispatch(INCREMENT_DATA) =>
          /\ pc' = "advance"
          /\ ToByte(heap'[dp].data) = (CurrentByte + 1) % CharModulus
    /\ Dispatch(DECREMENT_DATA) =>
          /\ pc' = "advance"
          /\ ToByte(heap'[dp].data) = (CurrentByte - 1) % CharModulus
    /\ Dispatch(LOOP_START) =>
          ((pc' = "advance" /\ ip' = ip) <=> CurrentByte # 0)

\* C11: increment and decrement wrap on 8 bits and agree with the zero
\* test: CharModulus increments (decrements) of any value give it back,
\* each undoes the other, 127 + 1 is -128 and -128 - 1 is 127; CharModulus
\* '+' and '.' from a zero cell write the byte 0, as '.' alone does, and a
\* '[' after CharModulus '+' finds the cell zero and skips its body.
C11_WrappingArithmetic == []C11_State /\ [][C11_Step]_vars

\* CharModulus '+' and '.' has ended; the cell passed 127 and -128 on its
\* way back to 0.
C11_Witness ==
    /\ pc = "done"
    /\ IsSource(IncrementsThenOutput)
    /\ heap[dp].data = 0
    /\ output = <<0>>

\* ---------------------------------------------------------------- C12
\* n calls of moveForward (moveBackward) from cell p, malloc granting each.
RECURSIVE Forwards(_, _, _)
Forwards(h, p, n) ==
    IF n = 0 THEN MoveResult(h, p, TRUE)
    ELSE LET r == moveForward(h, p, TRUE)
         IN  Forwards(r.heap, r.ptr, n - 1)

RECURSIVE Backwards(_, _, _)
Backwards(h, p, n) ==
    IF n = 0 THEN MoveResult(h, p, TRUE)
    ELSE LET r == moveBackward(h, p, TRUE)
         IN  Backwards(r.heap, r.ptr, n - 1)

\* Tape h2 holds the cells of h with their values, and 0 in every other.
KeepsValues(h, h2) ==
    /\ Len(h2) >= Len(h)
    /\ \A c \in 1..Len(h) : h2[c].data = h[c].data
    /\ \A c \in (Len(h) + 1)..Len(h2) : h2[c].data = 0

C12_State ==
    pc = "tape" =>
       \A n \in 1..MaxMoves :
          LET f == Forwards(heap, dp, n)
              fb == Backwards(f.heap, f.ptr, n)
              b == Backwards(heap, dp, n)
              bf == Forwards(b.heap, b.ptr, n)
          IN  /\ fb.ptr = dp
              /\ bf.ptr = dp
              /\ KeepsValues(heap, fb.heap)
              /\ KeepsValues(heap, bf.heap)
              /\ Len(fb.heap) = Len(f.heap)
              /\ Len(bf.heap) = Len(b.heap)

C12_Step ==
    (pc = "tape" /\ pc' = "tape") =>
       /\ KeepsValues(heap, heap')
       /\ Len(heap') = Len(heap) + 1 =>
             /\ dp' = Len(heap')
             /\ heap[dp].next = NULL \/ heap[dp].prev = NULL
       /\ Len(heap') = Len(heap) => heap' = heap
       /\ dp' # dp

\* C12: on a tape of one cell holding v, a move past either end allocates
\* a cell holding 0 and returns it; n moves forward and then n moves
\* backward, or n backward and then n forward, return the cell they started
\* from, with v still in it and the value of no other cell changed.
C12_MovesRoundTrip == []C12_State /\ [][C12_Step]_vars

\* Three cells were allocated forward of the one cell holding 127 and the
\* cursor is back on it.
C12_Witness ==
    /\ pc = "tape"
    /\ Len(heap) = 4
    /\ dp = 1
    /\ heap[1].data = 127
    /\ heap[1].prev = NULL
    /\ heap[1].next # NULL

\* ---------------------------------------------------------------- C13
\* The value of every data cell but the current one is left as it is.
OtherCellsKept ==
    /\ Len(heap') = Len(heap)
    /\ \A c \in 1..Len(heap) :
          /\ heap'[c].next = heap[c].next
          /\ heap'[c].prev = heap[c].prev
          /\ c # dp => heap'[c].data = heap[c].data

C13_Step ==
    /\ Dispatch(INPUT_DATA) =>
          /\ pc' = "advance"
          /\ ip' = ip /\ dp' = dp /\ output' = output
          /\ OtherCellsKept
          /\ stdinEOF => stdinEOF'
          /\ stdinEOF' => heap'[dp].data = ToChar(EOF)
    /\ (pc = "advance" /\ heap[ip].data = INPUT_DATA) => StepsToNext

\* C13: from the end of input on, every ',' stores the one value (char)EOF,
\* -1, in the current data cell, whatever the cell held, wherever the
\* cursor is and however many reads came before; the read is no error and
\* the instruction after the ',' is dispatched next.
C13_InputPastEndIsConstant == [][C13_Step]_vars

\* ,>, has read twice: the second read, past the end of input, stored -1
\* in the second data cell.
C13_Witness ==
    /\ pc = "exec"
    /\ IsSource(<<INPUT_DATA, MOVE_FORWARD, INPUT_DATA>>)
    /\ ProgramEnds(heap, ip)
    /\ stdinEOF
    /\ dp # dataHead
    /\ heap[dp].data = ToChar(EOF)
    /\ heap[dataHead].data = ToChar(EOF)

\* ---------------------------------------------------------------- C14
\* C14: when the run has ended, at the sentinel or in a failed allocation,
\* every cell malloc handed out for either tape has been freed, the data
\* cells left of the initial one included.
C14_AllCellsReleased ==
    pc \in {"done", "fatal"} => freed = 1..Len(heap)

\* ---------------------------------------------------------------- C15
\* The step about to be taken calls moveForward or moveBackward on a cell
\* at the end of its tape.
NeedsCell ==
    \/ pc = "advance" /\ heap[ip].next = NULL
    \/ Dispatch(MOVE_FORWARD) /\ heap[dp].next = NULL
    \/ Dispatch(MOVE_BACKWARD) /\ heap[dp].prev = NULL
    \/ /\ pc = "parse"
       /\ pos <= Len(src)
       /\ ~ReadEnds(src, pos)
       /\ IsInstruction(ToChar(src[pos]))
       /\ heap[cur].next = NULL

\* A cursor that is in use references a cell malloc handed out and free
\* has not released.
ValidCursor(c) == c \in (1..Len(heap)) \ freed

C15_State ==
    /\ pc \in {"parse", "fatal"} => ValidCursor(cur)
    /\ pc \in {"exec", "advance"} => ValidCursor(ip) /\ ValidCursor(dp)
    /\ (pc = "fatal" /\ ip # NULL) => ValidCursor(ip) /\ ValidCursor(dp)
    /\ pc = "fatal" => ExitStatus # 0

C15_Step ==
    /\ pc # "fatal"
    /\ NeedsCell =>
          \/ pc' # "fatal" /\ Len(heap') = Len(heap) + 1
          \/ /\ pc' = "fatal"
             /\ Len(heap') = Len(heap)
             /\ \A c \in 1..Len(heap) :
                   heap'[c].next = heap[c].next /\ heap'[c].prev = heap[c].prev
    /\ pc' = "fatal" =>
          /\ pc \in {"parse", "exec", "advance"}
          /\ output' = output
          /\ Len(heap') >= Len(heap)
          /\ \A c \in 1..Len(heap) : pc # "parse" => heap'[c].data = heap[c].data

\* C15: a malloc that fails in moveForward or moveBackward, while loading
\* or executing, ends the run at once with a non-zero status: the cell is
\* not added, nothing is dispatched or written afterwards, and every
\* cursor in use references an allocated cell.
C15_AllocationFailureIsFatal == []C15_State /\ [][C15_Step]_vars

\* .> has written a byte and then failed to allocate the second data cell.
C15_Witness ==
    /\ pc = "fatal"
    /\ output = <<0>>
    /\ ip # NULL
    /\ heap[ip].data = MOVE_FORWARD
    /\ dp = dataHead
    /\ heap[dp].next = NULL

\* ---------------------------------------------------------------- C16
\* C16: the status a run ends with tells its outcome: the status of a run
\* to completion, of a rejected source and of a failed allocation are
\* pairwise different.
C16_OutcomesDistinguished ==
    /\ pc = "done" => ExitStatus \notin {RejectStatus, FatalStatus}
    /\ pc = "reject" => ExitStatus \notin {SuccessStatus, FatalStatus}
    /\ pc = "fatal" => ExitStatus \notin {SuccessStatus, RejectStatus}

\* ---------------------------------------------------------------- C17
\* The cells from `block` on by prev, at most k of them, in order.
RECURSIVE SegBack(_, _, _)
SegBack(h, block, k) ==
    IF block = NULL \/ k = 0 THEN <<>>
    ELSE IF k = 1 THEN <<block>>
    ELSE LET half == k \div 2
             front == SegBack(h, block, half)
         IN  IF Len(front) < half THEN front
             ELSE front \o SegBack(h, h[front[half]].prev, k - half)

\* The data cells right of the initial one, nearest first, and those left
\* of it.
DataRight(h) == Seg(h, h[dataHead].next, Len(h))

DataLeft(h) == SegBack(h, h[dataHead].prev, Len(h))

\* How far right of the initial data cell cell d is; negative to its left.
DataOffset(h, d) ==
    IF d = dataHead THEN 0
    ELSE LET right == DataRight(h)
         IN  IF PosOf(right, d) # 0 THEN PosOf(right, d)
             ELSE 0 - PosOf(DataLeft(h), d)

C17_State ==
    pc \in {"exec", "advance"} =>
       LET right == DataRight(heap)
           left == DataLeft(heap)
       IN  /\ freed = {}
           /\ 1 + Len(right) + Len(left) = Len(heap) - Len(ITapeCells)
           /\ dp = dataHead \/ PosOf(right, dp) # 0 \/ PosOf(left, dp) # 0

C17_Step ==
    pc \in {"exec", "advance"} =>
       LET right == DataRight(heap)
           left == DataLeft(heap)
           right2 == DataRight(heap')
           left2 == DataLeft(heap')
           off == DataOffset(heap, dp)
           off2 == DataOffset(heap', dp')
       IN  /\ freed' = freed
           /\ SubSeq(right2, 1, Len(right)) = right
           /\ SubSeq(left2, 1, Len(left)) = left
           /\ Len(right2) \in {Len(right), Len(right) + 1}
           /\ Len(left2) \in {Len(left), Len(left) + 1}
           /\ Len(right2) > Len(right) =>
                 /\ Dispatch(MOVE_FORWARD)
                 /\ off = Len(right)
                 /\ off2 = Len(right2)
                 /\ heap'[dp'].data = 0
           /\ Len(left2) > Len(left) =>
                 /\ Dispatch(MOVE_BACKWARD)
                 /\ off = 0 - Len(left)
                 /\ off2 = 0 - Len(left2)
                 /\ heap'[dp'].data = 0
           /\ (Dispatch(MOVE_FORWARD) /\ pc' = "advance") =>
                 /\ off2 = off + 1
                 /\ Len(right2) > Len(right) <=> off = Len(right)
           /\ (Dispatch(MOVE_BACKWARD) /\ pc' = "advance") =>
                 /\ off2 = off - 1
                 /\ Len(left2) > Len(left) <=> off = 0 - Len(left)
           /\ ~(Dispatch(MOVE_FORWARD) \/ Dispatch(MOVE_BACKWARD)) => off2 = off

\* C17: while a program executes, the data tape is the initial cell, the
\* cells right of it and the cells left of it, and none is lost or freed;
\* the right side grows by one cell exactly when '>' is executed on its
\* last cell, and the left side when '<' is executed on its first, the new
\* cell holds 0 and is the current cell; so each side is as long as the
\* furthest the cursor has been on it.
C17_DataTapeGrowsLazily == []C17_State /\ [][C17_Step]_vars

\* ><< has ended: the first '<' came back to the initial cell without
\* allocating, the second allocated the cell left of it.
C17_Witness ==
    /\ pc = "exec"
    /\ ProgramEnds(heap, ip)
    /\ IsSource(<<MOVE_FORWARD, MOVE_BACKWARD, MOVE_BACKWARD>>)
    /\ Len(DataRight(heap)) = 1
    /\ Len(DataLeft(heap)) = 1
    /\ DataOffset(heap, dp) = 0 - 1

\* ---------------------------------------------------------------- C18
C18_Step ==
    /\ (Dispatch(MOVE_FORWARD) \/ Dispatch(MOVE_BACKWARD)) =>
          /\ ip' = ip /\ output' = output
          /\ KeepsValues(heap, heap')
          /\ Len(heap') <= Len(heap) + 1
          /\ pc' = "advance" => dp' # dp
    /\ (\/ Dispatch(INCREMENT_DATA)
        \/ Dispatch(DECREMENT_DATA)
        \/ Dispatch(INPUT_DATA)) =>
          /\ ip' = ip /\ dp' = dp /\ output' = output
          /\ OtherCellsKept
    /\ Dispatch(OUTPUT_DATA) =>
          /\ output' = Append(output, heap[dp].data % CharModulus)
          /\ heap' = heap /\ ip' = ip /\ dp' = dp
    /\ (Dispatch(LOOP_START) \/ Dispatch(LOOP_END)) =>
          /\ heap' = heap /\ dp' = dp /\ output' = output
    /\ pc = "advance" =>
          /\ dp' = dp /\ output' = output
          /\ KeepsValues(heap, heap')
    /\ ~Dispatch(OUTPUT_DATA) => output' = output

FirstEnd(s) ==
    CHOOSE i \in 1..(Len(s) + 1) :
       ReadEnds(s, i) /\ \A j \in 1..(i - 1) : ~ReadEnds(s, j)

\* The '[' and ']' of a stream, in order.
Brackets(s) == SelectSeq(s, LAMBDA b : b \in {LOOP_START, LOOP_END})

C19_State ==
    ExecutionStarts =>
       /\ pos = FirstEnd(src)
       /\ Brackets(Loaded) = Brackets(SubSeq(src, 1, pos - 1))
       /\ WellBracketed(Loaded)

C19_Step ==
    (pc = "check" /\ pc' = "alloc") =>
       /\ pos = FirstEnd(src)
       /\ WellBracketed(SubSeq(src, 1, pos - 1))

\* C19: when checkBrackets accepts a stream, bytes 0xFF included, what
\* parseInstructions loads from it is balanced and properly nested: both
\* readers stop at the same byte and meet the same '[' and ']' before it.
C19_LoaderAgreesWithValidator == []C19_State /\ [][C19_Step]_vars

\* []\xFF] was accepted and loaded as [], the ']' after the byte 0xFF
\* seen by neither reader.
C19_Witness ==
    /\ ExecutionStarts
    /\ IsSource(<<LOOP_START, LOOP_END, 255, LOOP_END>>)
    /\ pos = 3
    /\ Loaded = <<LOOP_START, LOOP_END>>

\* ---------------------------------------------------------------- C20
\* The cells of the tape of `head`: those before it by prev and those from
\* it on by next.
TapeCells(h, head) ==
    LET before == SegBack(h, head, Len(h))
        after == Seg(h, head, Len(h))
    IN  {before[k] : k \in 1..Len(before)} \cup {after[k] : k \in 1..Len(after)}

\* The cells one meets from c by next (by prev) are all different: the
\* walk ends.
EndsForward(h, c) ==
    LET s == Seg(h, c, Len(h) + 1)
    IN  Len(s) <= Len(h) /\ h[s[Len(s)]].next = NULL

EndsBackward(h, c) ==
    LET s == SegBack(h, c, Len(h) + 1)
    IN  Len(s) <= Len(h) /\ h[s[Len(s)]].prev = NULL

C20_State ==
    pc \in {"parse", "exec", "advance", "fatal"} =>
       LET icells == TapeCells(heap, instructionHead)
           dcells == TapeCells(heap, dataHead)
       IN  /\ \A c \in 1..Len(heap) :
                 /\ heap[c].next # NULL =>
                       /\ heap[c].next \in 1..Len(heap)
                       /\ heap[heap[c].next].prev = c
                 /\ heap[c].prev # NULL =>
                       /\ heap[c].prev \in 1..Len(heap)
                       /\ heap[heap[c].prev].next = c
                 /\ heap[c].next # c /\ heap[c].prev # c
           /\ EndsForward(heap, instructionHead)
           /\ EndsBackward(heap, instructionHead)
           /\ EndsForward(heap, dataHead)
           /\ EndsBackward(heap, dataHead)
           /\ Cardinality({c \in icells : heap[c].prev = NULL}) = 1
           /\ Cardinality({c \in icells : heap[c].next = NULL}) = 1
           /\ Cardinality({c \in dcells : heap[c].prev = NULL}) = 1
           /\ Cardinality({c \in dcells : heap[c].next = NULL}) = 1
           /\ icells \cap dcells = {}
           /\ icells \cup dcells = 1..Len(heap)
           /\ cur \in icells
           /\ ip # NULL => ip \in icells /\ dp \in dcells

\* C20: while a program is loaded and executed, each tape is a linear
\* doubly linked chain: next and prev are each other's inverse, one cell
\* has no prev and one has no next, no walk along the links comes back to
\* a cell, each cursor is on a cell of its own tape, and the two tapes
\* share no cell.
C20_TapesAreLinearChains == C20_State

\* <>> has ended: the data tape has a cell on either side of the initial
\* one and the instruction tape four cells.
C20_Witness ==
    /\ pc = "exec"
    /\ ProgramEnds(heap, ip)
    /\ IsSource(<<MOVE_BACKWARD, MOVE_FORWARD, MOVE_FORWARD>>)
    /\ Cardinality(TapeCells(heap, dataHead)) = 3
    /\ Cardinality(TapeCells(heap, instructionHead)) = 4
    /\ heap[dp].next = NULL
    /\ heap[heap[dp].prev].prev # NULL

====
